---- MODULE Spec2Model ----
(* Model of performance.py: the benchmark harness that drives three search   *)
(* backends (OpenSearch, Meilisearch, Solr) through indexing, load runs,      *)
(* schema declaration and cleanup.                                            *)
EXTENDS Integers, Sequences, FiniteSets, TLC

(* ------------------------------------------------------------------------ *)
(* Bounds of the model                                                        *)
(* ------------------------------------------------------------------------ *)
MaxRequests == 3
MaxConcurrency == 2
MaxTime == 2
MaxDocs == 3
MaxCleanupCalls == 3
MaxCorpus == 3
MaxSchemaCalls == 2
MaxSweepRequests == 1
MaxSweepTime == 1
MaxSweepConcurrency == 1
MaxSweepFailures == 1
MaxTesterDocs == 1
MaxTesterRequests == 2

(* ------------------------------------------------------------------------ *)
(* Program constants                                                          *)
(* ------------------------------------------------------------------------ *)
Engines == <<"OpenSearch", "Meilisearch", "Solr">>

\* run_multiple_search_tests: queries and metrics
Queries == <<"APT28", "Android", "phishing", "malware", "fraud",
             "e878d24d-f122-48c4-930c-f6b6d5f0ee28">>

MetricNames == {"avg_latency", "median_latency", "throughput", "errors"}

EngineNames == {Engines[i] : i \in 1..Len(Engines)}

VARIABLES
  \* ---- one load run: <Engine>._run_search_test ----
  ldEngine,       \* the backend whose search() is running
  num_requests,   \* argument of search()
  concurrency,    \* argument of search(): max_workers of the pool
  ldPc,           \* position of the calling thread in _run_search_test
  futures,        \* the list `futures`: one record per submitted work item
  consumed,       \* indices of futures already yielded by as_completed
  latencies,      \* the list `latencies`
  errors,         \* the counter `errors`
  start_time,     \* time.time() at entry
  now,            \* the wall clock
  result          \* <<>> until the call returns, then <<Metrics>>

loadVars == <<ldEngine, num_requests, concurrency, ldPc, futures, consumed,
              latencies, errors, start_time, now, result>>

VARIABLES
  \* ---- one <Engine>.index_documents(docs) call ----
  ixEngine,       \* the backend whose index_documents() is running
  ixDocs,         \* len(docs)
  ixPc,           \* position in index_documents
  ixPos,          \* index of the next document of the for loop
  ixSent,         \* per document: "unsent", "indexed" or "failed"
  ixStart,        \* the local `start`
  ixNow,          \* the wall clock
  ixElapsed       \* <<>> until the call returns, then <<elapsed>>

indexVars == <<ixEngine, ixDocs, ixPc, ixPos, ixSent, ixStart, ixNow, ixElapsed>>

VARIABLES
  \* ---- MISPPerfTester.cleanup() and the backends' cleanup() ----
  hasData,        \* per backend: the benchmark index / documents are present
  clPc,           \* position in MISPPerfTester.cleanup
  clIdx,          \* index in self.engines of the for loop
  clCalls,        \* per backend: cleanup() invocations of the current call
  clRuns,         \* number of MISPPerfTester.cleanup() calls so far
  clLast          \* the last engine.cleanup() invocation and its outcome

cleanupVars == <<hasData, clPc, clIdx, clCalls, clRuns, clLast>>

VARIABLES
  \* ---- SolrEngine.gather_field_definitions(docs, flatten) ----
  corpus,         \* the argument docs
  scFlatten,      \* the argument flatten
  scPc,           \* "scanning" or "done"
  scPos,          \* index of the next document of the for loop
  field_defs      \* the dict `field_defs`, with its insertion order

scanVars == <<corpus, scFlatten, scPc, scPos, field_defs>>

VARIABLES
  \* ---- SolrEngine schema declaration: create_core_schema ----
  created_fields, \* self.created_fields, the cache of declared fields
  liveSchema,     \* names of the fields of the Solr core's schema
  copyRules,      \* number of copyField rules of the Solr core's schema
  csPc,           \* "uninitialized", "declaring", "catchall", "copyfield", "ready"
  csDefs,         \* the local field_defs of create_core_schema
  csIdx,          \* index of the next item of field_defs.items()
  csCalls,        \* number of create_core_schema calls so far
  requests,       \* schema requests issued by the current call, in order
  addOk           \* per field name: add-field requests answered 200 so far

schemaVars == <<created_fields, liveSchema, copyRules, csPc, csDefs, csIdx,
                csCalls, requests, addOk>>

VARIABLES
  \* ---- main(): MISPPerfTester and run_multiple_search_tests ----
  mainPc,         \* "sweep", "searching", "plot", "done" or "raised"
  num_search,     \* args.num_search
  qIdx,           \* index in queries of the outer loop
  eIdx,           \* index in self.engines of the inner loop
  results,        \* the dict `results`: engine name -> metric -> list
  solrCalledIn,   \* the schema states in which search/index_documents was
                  \* called on the Solr backend
  runLog          \* the load runs returned so far: query index, engine, Metrics

mainVars == <<mainPc, num_search, qIdx, eIdx, results, solrCalledIn, runLog>>

VARIABLES
  \* ---- MISPPerfTester.run_indexing_tests / run_search_tests ----
  tsMethod,       \* the MISPPerfTester method that was called
  tsPc,           \* "loop", "calling", "done" or "raised"
  tsIdx,          \* index in self.engines of the for loop
  tsDocs,         \* len(self.documents)
  tsLog           \* the engines whose call has begun, in order

testerVars == <<tsMethod, tsPc, tsIdx, tsDocs, tsLog>>

vars == <<loadVars, indexVars, cleanupVars, scanVars, schemaVars, mainVars,
          testerVars>>

(* ------------------------------------------------------------------------ *)
(* Numbers: Python floats are modelled as exact fractions num/den.            *)
(* ------------------------------------------------------------------------ *)
Zero == [num |-> 0, den |-> 1]

IsZero(q) == q.num = 0

RECURSIVE SumSeq(_)
SumSeq(s) == IF s = <<>> THEN 0 ELSE Head(s) + SumSeq(Tail(s))

\* statistics.mean
Mean(s) == [num |-> SumSeq(s), den |-> Len(s)]

\* sorted(s): insertion into an ascending sequence
RECURSIVE InsertSorted(_, _)
InsertSorted(x, s) ==
  IF s = <<>> THEN <<x>>
  ELSE IF x <= Head(s) THEN <<x>> \o s
  ELSE <<Head(s)>> \o InsertSorted(x, Tail(s))

RECURSIVE Sorted(_)
Sorted(s) == IF s = <<>> THEN <<>> ELSE InsertSorted(Head(s), Sorted(Tail(s)))

\* statistics.median: the middle element, or the mean of the two middle ones
Median(s) ==
  LET d == Sorted(s)
      n == Len(s)
  IN IF n % 2 = 1 THEN [num |-> d[(n \div 2) + 1], den |-> 1]
     ELSE [num |-> d[n \div 2] + d[(n \div 2) + 1], den |-> 2]

(* ------------------------------------------------------------------------ *)
(* The single-request operation of each backend                               *)
(* ------------------------------------------------------------------------ *)
Pending == [kind |-> "pending", latency |-> 0]
ValueResult(l) == [kind |-> "value", latency |-> l]
NoneResult == [kind |-> "none", latency |-> 0]
ExcResult == [kind |-> "exc", latency |-> 0]

\* OpenSearchEngine._perform_search: try/except around the client call
OpenSearch_perform_search(ok, elapsed) ==
  IF ok THEN ValueResult(elapsed) ELSE NoneResult

\* MeilisearchEngine._perform_search: no try/except, the exception escapes
Meilisearch_perform_search(ok, elapsed) ==
  IF ok THEN ValueResult(elapsed) ELSE ExcResult

\* SolrEngine._perform_search: no try/except, the exception escapes
Solr_perform_search(ok, elapsed) ==
  IF ok THEN ValueResult(elapsed) ELSE ExcResult

perform_search(engine, ok, elapsed) ==
  CASE engine = "OpenSearch" -> OpenSearch_perform_search(ok, elapsed)
    [] engine = "Meilisearch" -> Meilisearch_perform_search(ok, elapsed)
    [] engine = "Solr" -> Solr_perform_search(ok, elapsed)

(* ------------------------------------------------------------------------ *)
(* _run_search_test (the same text in the three backends)                     *)
(* ------------------------------------------------------------------------ *)
\* an off-by-one variant of the submit loop: range(num_requests + 1)
RequestRange_OneMore(n) == 0..n

\* range(num_requests)
RequestRange(n) == 0..(n - 1)

AvgLatency(lat) == IF lat # <<>> THEN Mean(lat) ELSE Zero

MedianLatency(lat) == IF lat # <<>> THEN Median(lat) ELSE Zero

Throughput(total_requests, total_time) ==
  IF total_time > 0 THEN [num |-> total_requests, den |-> total_time] ELSE Zero

Metrics(lat, errs, total_time) ==
  [total_requests |-> Len(lat) + errs,
   successful |-> Len(lat),
   errors |-> errs,
   avg_latency |-> AvgLatency(lat),
   median_latency |-> MedianLatency(lat),
   throughput |-> Throughput(Len(lat) + errs, total_time)]

FutureIds == 1..Len(futures)

Running == {i \in FutureIds : futures[i].st = "running"}

Queued == {i \in FutureIds : futures[i].st = "queued"}

Finished == {i \in FutureIds : futures[i].st = "finished"}

\* entry of _run_search_test: latencies = [], errors = 0, start_time = time.time()
LoadEntry(e, n, c, t) ==
  /\ ldEngine = e
  /\ num_requests = n
  /\ concurrency = c
  /\ ldPc = "submit"
  /\ futures = <<>>
  /\ consumed = {}
  /\ latencies = <<>>
  /\ errors = 0
  /\ start_time = t
  /\ now = t
  /\ result = <<>>

\* futures.append(executor.submit(self._perform_search, payload))
Submit ==
  /\ ldPc = "submit"
  /\ Len(futures) \in RequestRange(num_requests)
  /\ futures' = Append(futures, [st |-> "queued", start |-> 0, res |-> Pending, calls |-> 0])
  /\ UNCHANGED <<ldEngine, num_requests, concurrency, ldPc, consumed, latencies,
                 errors, start_time, now, result>>

\* the submit loop is exhausted; the caller enters as_completed
SubmitDone ==
  /\ ldPc = "submit"
  /\ Len(futures) \notin RequestRange(num_requests)
  /\ ldPc' = "collect"
  /\ UNCHANGED <<ldEngine, num_requests, concurrency, futures, consumed, latencies,
                 errors, start_time, now, result>>

\* a pool that lets one thread more than max_workers run
CanStartWorker_OneMore(nRunning, max_workers) == nRunning <= max_workers

\* a pool that keeps one of its max_workers threads unused
CanStartWorker_OneLess(nRunning, max_workers) == nRunning < max_workers - 1

\* ThreadPoolExecutor(max_workers=concurrency): a work item starts only while
\* fewer than max_workers threads are busy
CanStartWorker(nRunning, max_workers) == nRunning < max_workers

\* a pool thread takes the oldest queued work item; the pool has at most
\* max_workers = concurrency threads
WorkerStart ==
  /\ Queued # {}
  /\ CanStartWorker(Cardinality(Running), concurrency)
  /\ LET i == CHOOSE j \in Queued : \A k \in Queued : j <= k
     IN futures' = [futures EXCEPT ![i].st = "running", ![i].start = now,
                                   ![i].calls = @ + 1]
  /\ UNCHANGED <<ldEngine, num_requests, concurrency, ldPc, consumed, latencies,
                 errors, start_time, now, result>>

\* a running _perform_search returns or raises; the future is completed
WorkerFinish ==
  \E i \in Running, ok \in BOOLEAN :
    /\ futures' = [futures EXCEPT ![i].st = "finished",
                     ![i].res = perform_search(ldEngine, ok, now - futures[i].start)]
    /\ UNCHANGED <<ldEngine, num_requests, concurrency, ldPc, consumed, latencies,
                   errors, start_time, now, result>>

\* one iteration of `for future in as_completed(futures)`: future.result()
\* re-raises the exception of the work item, otherwise the result is classified
Collect ==
  /\ ldPc = "collect"
  /\ \E i \in Finished \ consumed :
       LET r == futures[i].res IN
       /\ consumed' = consumed \cup {i}
       /\ IF r.kind = "exc"
          THEN /\ ldPc' = "unwinding"
               /\ UNCHANGED <<latencies, errors>>
          ELSE IF r.kind = "value"
          THEN /\ latencies' = Append(latencies, r.latency)
               /\ UNCHANGED <<ldPc, errors>>
          ELSE /\ errors' = errors + 1
               /\ UNCHANGED <<ldPc, latencies>>
  /\ UNCHANGED <<ldEngine, num_requests, concurrency, futures, start_time, now, result>>

\* a caller that stops collecting after the first result
CollectDone_Early ==
  /\ ldPc = "collect"
  /\ consumed # {} \/ FutureIds = {}
  /\ ldPc' = "compute"
  /\ UNCHANGED <<ldEngine, num_requests, concurrency, futures, consumed, latencies,
                 errors, start_time, now, result>>

\* as_completed is exhausted; the with block exits normally
CollectDone ==
  /\ ldPc = "collect"
  /\ consumed = FutureIds
  /\ ldPc' = "compute"
  /\ UNCHANGED <<ldEngine, num_requests, concurrency, futures, consumed, latencies,
                 errors, start_time, now, result>>

\* an exit of the with block that does not wait: shutdown(wait=False)
ShutdownNoWait ==
  /\ ldPc = "unwinding"
  /\ ldPc' = "raised"
  /\ UNCHANGED <<ldEngine, num_requests, concurrency, futures, consumed, latencies,
                 errors, start_time, now, result>>

\* the with block exits on an exception: executor.shutdown(wait=True) lets every
\* submitted work item finish, then the exception leaves _run_search_test
ShutdownWait ==
  /\ ldPc = "unwinding"
  /\ Finished = FutureIds
  /\ ldPc' = "raised"
  /\ UNCHANGED <<ldEngine, num_requests, concurrency, futures, consumed, latencies,
                 errors, start_time, now, result>>

\* total_time ... return {...}
ComputeMetrics ==
  /\ ldPc = "compute"
  /\ result' = <<Metrics(latencies, errors, now - start_time)>>
  /\ ldPc' = "done"
  /\ UNCHANGED <<ldEngine, num_requests, concurrency, futures, consumed, latencies,
                 errors, start_time, now>>

\* the wall clock advances while a load run is in progress
Tick ==
  /\ ldPc \notin {"done", "raised"}
  /\ now < MaxTime
  /\ now' = now + 1
  /\ UNCHANGED <<ldEngine, num_requests, concurrency, ldPc, futures, consumed,
                 latencies, errors, start_time, result>>

\* no load run in progress
LoadIdle == LoadEntry("OpenSearch", 0, 1, 0)

LoadTerminated == ldPc \in {"done", "raised"}

FailedRequests == {i \in FutureIds : futures[i].res.kind \in {"none", "exc"}}

(* ------------------------------------------------------------------------ *)
(* index_documents of the three backends                                      *)
(* ------------------------------------------------------------------------ *)
DocIds == 1..ixDocs

\* entry of index_documents(docs)
IndexEntry(e, n) ==
  /\ ixEngine = e
  /\ ixDocs = n
  /\ ixPc = "prepare"
  /\ ixPos = 1
  /\ ixSent = [d \in 1..n |-> "unsent"]
  /\ ixStart = 0
  /\ ixNow = 0
  /\ ixElapsed = <<>>

IndexIdle == IndexEntry("OpenSearch", 0)

\* the call made before the documents are sent, outside any try block:
\* client.indices.create / client.create_index / solr.ping; if it raises,
\* the exception leaves index_documents
IndexPrepare ==
  /\ ixPc = "prepare"
  /\ \E ok \in BOOLEAN :
       ixPc' = IF ok THEN "loop" ELSE "raised"
  /\ ixStart' = IF ixEngine = "Solr" THEN ixNow ELSE ixStart
  /\ UNCHANGED <<ixEngine, ixDocs, ixPos, ixSent, ixNow, ixElapsed>>

\* OpenSearchEngine.index_documents, loop body: try: client.index(...) except: pass
OpenSearch_IndexDoc ==
  /\ ixEngine = "OpenSearch"
  /\ ixPc = "loop"
  /\ ixPos \in DocIds
  /\ \E ok \in BOOLEAN :
       ixSent' = [ixSent EXCEPT ![ixPos] = IF ok THEN "indexed" ELSE "failed"]
  /\ ixPos' = ixPos + 1
  /\ UNCHANGED <<ixEngine, ixDocs, ixPc, ixStart, ixNow, ixElapsed>>

\* MeilisearchEngine.index_documents, loop body: update_documents([doc]) with
\* no try block
Meilisearch_IndexDoc ==
  /\ ixEngine = "Meilisearch"
  /\ ixPc = "loop"
  /\ ixPos \in DocIds
  /\ \E ok \in BOOLEAN :
       IF ok
       THEN /\ ixSent' = [ixSent EXCEPT ![ixPos] = "indexed"]
            /\ ixPos' = ixPos + 1
            /\ UNCHANGED ixPc
       ELSE /\ ixSent' = [ixSent EXCEPT ![ixPos] = "failed"]
            /\ ixPc' = "raised"
            /\ UNCHANGED ixPos
  /\ UNCHANGED <<ixEngine, ixDocs, ixStart, ixNow, ixElapsed>>

\* SolrEngine.index_documents: solr.add(docs), one request for the whole
\* batch, with no try block
Solr_AddDocs ==
  /\ ixEngine = "Solr"
  /\ ixPc = "loop"
  /\ ixPos = 1
  /\ \E ok \in BOOLEAN :
       IF ok
       THEN /\ ixSent' = [d \in DocIds |-> "indexed"]
            /\ UNCHANGED ixPc
       ELSE /\ ixSent' = [d \in DocIds |-> "failed"]
            /\ ixPc' = "raised"
  /\ ixPos' = ixDocs + 2
  /\ UNCHANGED <<ixEngine, ixDocs, ixStart, ixNow, ixElapsed>>

\* elapsed = time.time() - start; return elapsed
IndexReturn ==
  /\ ixPc = "loop"
  /\ ixPos > ixDocs
  /\ ixEngine = "Solr" => ixPos = ixDocs + 2
  /\ ixElapsed' = <<ixNow - ixStart>>
  /\ ixPc' = "done"
  /\ UNCHANGED <<ixEngine, ixDocs, ixPos, ixSent, ixStart, ixNow>>

\* the wall clock advances while index_documents runs
IndexTick ==
  /\ ixPc \notin {"done", "raised"}
  /\ ixNow < MaxTime
  /\ ixNow' = ixNow + 1
  /\ UNCHANGED <<ixEngine, ixDocs, ixPc, ixPos, ixSent, ixStart, ixElapsed>>

IndexTerminated == ixPc \in {"done", "raised"}

(* ------------------------------------------------------------------------ *)
(* cleanup of the backends and of the tester                                  *)
(* ------------------------------------------------------------------------ *)
\* Outcome of one backend cleanup(): [raised, data]. netOk says whether the
\* backend answers the request at all.

\* OpenSearchEngine.cleanup: client.indices.delete(index=...) with no ignore
\* option: the client raises NotFoundError when the index does not exist
OpenSearch_cleanup(data, netOk) ==
  IF ~netOk THEN [raised |-> TRUE, data |-> data]
  ELSE IF ~data THEN [raised |-> TRUE, data |-> FALSE]
  ELSE [raised |-> FALSE, data |-> FALSE]

\* MeilisearchEngine.cleanup: client.delete_index(...) enqueues a deletion task
Meilisearch_cleanup(data, netOk) ==
  IF ~netOk THEN [raised |-> TRUE, data |-> data]
  ELSE [raised |-> FALSE, data |-> FALSE]

\* SolrEngine.cleanup: solr.delete(q="*:*")
Solr_cleanup(data, netOk) ==
  IF ~netOk THEN [raised |-> TRUE, data |-> data]
  ELSE [raised |-> FALSE, data |-> FALSE]

engine_cleanup(e, data, netOk) ==
  CASE e = "OpenSearch" -> OpenSearch_cleanup(data, netOk)
    [] e = "Meilisearch" -> Meilisearch_cleanup(data, netOk)
    [] e = "Solr" -> Solr_cleanup(data, netOk)

NoCleanupYet ==
  [called |-> FALSE, engine |-> "OpenSearch", wasClean |-> FALSE,
   netOk |-> TRUE, raised |-> FALSE]

\* entry of MISPPerfTester.cleanup()
CleanupEntry(data, runs) ==
  /\ hasData = data
  /\ clPc = "loop"
  /\ clIdx = 1
  /\ clCalls = [e \in EngineNames |-> 0]
  /\ clRuns = runs
  /\ clLast = NoCleanupYet

CleanupIdle == CleanupEntry([e \in EngineNames |-> FALSE], 0)

\* one iteration of `for engine in self.engines: engine.cleanup()`; an
\* exception of engine.cleanup() leaves the loop and MISPPerfTester.cleanup
TesterCleanupStep ==
  /\ clPc = "loop"
  /\ clIdx <= Len(Engines)
  /\ \E netOk \in BOOLEAN :
       LET e == Engines[clIdx]
           out == engine_cleanup(e, hasData[e], netOk)
       IN /\ hasData' = [hasData EXCEPT ![e] = out.data]
          /\ clCalls' = [clCalls EXCEPT ![e] = @ + 1]
          /\ clLast' = [called |-> TRUE, engine |-> e, wasClean |-> ~hasData[e],
                        netOk |-> netOk, raised |-> out.raised]
          /\ IF out.raised
             THEN clPc' = "raised" /\ UNCHANGED clIdx
             ELSE clIdx' = clIdx + 1 /\ UNCHANGED clPc
  /\ UNCHANGED clRuns

\* the for loop is exhausted: MISPPerfTester.cleanup returns
TesterCleanupReturn ==
  /\ clPc = "loop"
  /\ clIdx > Len(Engines)
  /\ clPc' = "done"
  /\ UNCHANGED <<hasData, clIdx, clCalls, clRuns, clLast>>

\* MISPPerfTester.cleanup() is called again
TesterCleanupAgain ==
  /\ clPc \in {"done", "raised"}
  /\ clRuns < MaxCleanupCalls
  /\ clPc' = "loop"
  /\ clIdx' = 1
  /\ clCalls' = [e \in EngineNames |-> 0]
  /\ clRuns' = clRuns + 1
  /\ UNCHANGED <<hasData, clLast>>

CleanupTerminated == clPc \in {"done", "raised"}

(* ------------------------------------------------------------------------ *)
(* Documents: JSON values. Every node has the same shape: `key` is the key    *)
(* under which the value sits in its mapping ("" for a document and for a     *)
(* list element), `k` the kind, `t` the scalar type, `body` the elements of   *)
(* a list or the items of a mapping, in order.                                *)
(* ------------------------------------------------------------------------ *)
Scalar(key, t) == [key |-> key, k |-> "scalar", t |-> t, body |-> <<>>]

List(key, elems) == [key |-> key, k |-> "list", t |-> "", body |-> elems]

Dict(key, items) == [key |-> key, k |-> "dict", t |-> "", body |-> items]

ScalarTypes == {"int", "float", "bool", "str", "null"}

\* isinstance(value, cls); bool is a subclass of int in Python
IsInstance(v, cls) ==
  CASE cls = "list" -> v.k = "list"
    [] cls = "dict" -> v.k = "dict"
    [] cls = "int" -> v.k = "scalar" /\ v.t \in {"int", "bool"}
    [] cls = "float" -> v.k = "scalar" /\ v.t = "float"
    [] cls = "bool" -> v.k = "scalar" /\ v.t = "bool"

FieldDef(type, multi) == [type |-> type, multiValued |-> multi]

\* SolrEngine.infer_field_definition
infer_field_definition(value) ==
  IF IsInstance(value, "list")
  THEN IF value.body = <<>> THEN FieldDef("strings", TRUE)
       ELSE LET first_elem == value.body[1] IN
            IF IsInstance(first_elem, "int") THEN FieldDef("pints", TRUE)
            ELSE IF IsInstance(first_elem, "float") THEN FieldDef("pfloats", TRUE)
            ELSE IF IsInstance(first_elem, "bool") THEN FieldDef("string", TRUE)
            ELSE IF IsInstance(first_elem, "dict") THEN FieldDef("text_general", FALSE)
            ELSE FieldDef("strings", TRUE)
  ELSE IF IsInstance(value, "int") THEN FieldDef("pint", FALSE)
       ELSE IF IsInstance(value, "float") THEN FieldDef("pfloat", FALSE)
       ELSE IF IsInstance(value, "bool") THEN FieldDef("boolean", FALSE)
       ELSE IF IsInstance(value, "dict") THEN FieldDef("text_general", FALSE)
       ELSE FieldDef("string", FALSE)

\* a merge that lets the latest observation decide the type on a conflict
MergeFieldDef_LastWins(existing, inferred) ==
  LET merged_multi == existing.multiValued \/ inferred.multiValued
      merged_type == IF existing.type # inferred.type
                     THEN inferred.type
                     ELSE existing.type
  IN FieldDef(merged_type, merged_multi)

\* a merge that keeps the multiValued flag of the first observation
MergeFieldDef_KeepsFlag(existing, inferred) ==
  LET merged_multi == existing.multiValued
      merged_type == IF existing.type # inferred.type
                     THEN (IF merged_multi THEN "strings" ELSE "string")
                     ELSE existing.type
  IN FieldDef(merged_type, merged_multi)

\* _gather_field_definitions_from_doc, the branch `if key in field_defs`
MergeFieldDef(existing, inferred) ==
  LET merged_multi == existing.multiValued \/ inferred.multiValued
      merged_type == IF existing.type # inferred.type
                     THEN (IF merged_multi THEN "strings" ELSE "string")
                     ELSE existing.type
  IN FieldDef(merged_type, merged_multi)

\* the empty dict; `order` is the insertion order of the keys
EmptyFieldDefs == [order |-> <<>>, defs |-> <<>>]

HasKey(fd, key) == \E i \in 1..Len(fd.order) : fd.order[i] = key

KeyIndex(fd, key) == CHOOSE i \in 1..Len(fd.order) : fd.order[i] = key

GetDef(fd, key) == fd.defs[KeyIndex(fd, key)]

\* the else branch of _gather_field_definitions_from_doc: infer, then merge
\* into field_defs[key] or insert
Observe(fd, key, value) ==
  LET inferred == infer_field_definition(value) IN
  IF HasKey(fd, key)
  THEN [fd EXCEPT !.defs[KeyIndex(fd, key)] = MergeFieldDef(@, inferred)]
  ELSE [order |-> Append(fd.order, key), defs |-> Append(fd.defs, inferred)]

\* _gather_field_definitions_from_doc over the items of a mapping
RECURSIVE GatherItems(_, _, _)
RECURSIVE GatherEach(_, _, _)
GatherItems(items, fd, flatten) ==
  IF items = <<>> THEN fd
  ELSE LET value == Head(items)
           fd1 == IF flatten /\ IsInstance(value, "dict")
                  THEN GatherItems(value.body, fd, flatten)
                  ELSE IF /\ flatten
                          /\ IsInstance(value, "list")
                          /\ value.body # <<>>
                          /\ IsInstance(value.body[1], "dict")
                  THEN GatherEach(value.body, fd, flatten)
                  ELSE Observe(fd, value.key, value)
       IN GatherItems(Tail(items), fd1, flatten)

\* `for item in value: self._gather_field_definitions_from_doc(item, ...)`
GatherEach(elems, fd, flatten) ==
  IF elems = <<>> THEN fd
  ELSE GatherEach(Tail(elems), GatherItems(Head(elems).body, fd, flatten), flatten)

\* the traversal calls item.items() on every element of a list whose first
\* element is a mapping: an element that is no mapping raises AttributeError
RECURSIVE RaisesIn(_, _)
RaisesIn(items, flatten) ==
  \E i \in 1..Len(items) :
    LET value == items[i] IN
    IF flatten /\ IsInstance(value, "dict")
    THEN RaisesIn(value.body, flatten)
    ELSE IF /\ flatten
            /\ IsInstance(value, "list")
            /\ value.body # <<>>
            /\ IsInstance(value.body[1], "dict")
    THEN \E j \in 1..Len(value.body) :
           \/ ~IsInstance(value.body[j], "dict")
           \/ RaisesIn(value.body[j].body, flatten)
    ELSE FALSE

\* a traversal that never descends into mappings or lists of mappings
_gather_field_definitions_from_doc_Unflattened(doc, fd, flatten) ==
  GatherItems(doc.body, fd, FALSE)

_gather_field_definitions_from_doc(doc, fd, flatten) ==
  GatherItems(doc.body, fd, flatten)

\* SolrEngine.gather_field_definitions
RECURSIVE GatherFrom(_, _, _)
GatherFrom(docs, fd, flatten) ==
  IF docs = <<>> THEN fd
  ELSE GatherFrom(Tail(docs),
                  _gather_field_definitions_from_doc(Head(docs), fd, flatten),
                  flatten)

gather_field_definitions(docs, flatten) == GatherFrom(docs, EmptyFieldDefs, flatten)

\* a dict as a mapping: Python dict equality ignores the insertion order
AsMapping(fd) == {<<fd.order[i], fd.defs[i]>> : i \in 1..Len(fd.order)}

\* The documents scans are run on: every scalar and list shape under one key,
\* nested mappings, lists of mappings, a key seen twice in one document, and
\* a key that is a mapping in one document and a scalar in another, and a list
\* that starts with a mapping and goes on with a string.
LeafValues(key) ==
  {Scalar(key, t) : t \in ScalarTypes}
    \cup {List(key, <<>>)}
    \cup {List(key, <<Scalar("", t)>>) : t \in {"int", "float", "str"}}

ScanDocs ==
  {Dict("", <<v>>) : v \in LeafValues("a")}
    \cup {Dict("", <<Dict("n", <<Scalar("a", "int")>>)>>),
          Dict("", <<Dict("n", <<List("a", <<Scalar("", "str")>>)>>)>>),
          Dict("", <<List("n", <<Dict("", <<Scalar("a", "float")>>),
                                 Dict("", <<Scalar("a", "str")>>)>>)>>),
          Dict("", <<Scalar("a", "str"), Dict("n", <<Scalar("a", "int")>>)>>),
          Dict("", <<Scalar("b", "int"), List("a", <<>>)>>),
          Dict("", <<Scalar("n", "int")>>),
          Dict("", <<Dict("n", <<>>)>>),
          Dict("", <<Scalar("b", "int"),
                     List("n", <<Dict("", <<Scalar("a", "int")>>),
                                 Scalar("", "str")>>)>>)}

SeqsUpTo(S, n) == UNION {[1..m -> S] : m \in 0..n}

\* entry of gather_field_definitions: field_defs = {}
ScanEntry(docs, flatten) ==
  /\ corpus = docs
  /\ scFlatten = flatten
  /\ scPc = "scanning"
  /\ scPos = 1
  /\ field_defs = EmptyFieldDefs

ScanIdle == ScanEntry(<<>>, TRUE)

\* one iteration of `for doc in docs`
ScanDoc ==
  /\ scPc = "scanning"
  /\ scPos <= Len(corpus)
  /\ ~RaisesIn(corpus[scPos].body, scFlatten)
  /\ field_defs' = _gather_field_definitions_from_doc(corpus[scPos], field_defs, scFlatten)
  /\ scPos' = scPos + 1
  /\ UNCHANGED <<corpus, scFlatten, scPc>>

\* the traversal of a document raises: the exception leaves
\* gather_field_definitions, whose local field_defs is lost with it
ScanRaise ==
  /\ scPc = "scanning"
  /\ scPos <= Len(corpus)
  /\ RaisesIn(corpus[scPos].body, scFlatten)
  /\ scPc' = "raised"
  /\ UNCHANGED <<corpus, scFlatten, scPos, field_defs>>

\* return field_defs
ScanReturn ==
  /\ scPc = "scanning"
  /\ scPos > Len(corpus)
  /\ scPc' = "done"
  /\ UNCHANGED <<corpus, scFlatten, scPos, field_defs>>

(* ------------------------------------------------------------------------ *)
(* Schema declaration of the Solr backend                                     *)
(* ------------------------------------------------------------------------ *)
CatchAll == "_text_"

\* the corpora create_core_schema is called with
SchemaCorpora ==
  {<<>>,
   <<Dict("", <<Scalar("a", "int")>>)>>,
   <<Dict("", <<Scalar("revoked", "bool"), List("a", <<Scalar("", "str")>>)>>),
     Dict("", <<Dict("meta", <<Scalar("b", "str")>>)>>)>>,
   <<Dict("", <<Scalar("_text_", "str")>>), Dict("", <<Scalar("a", "int")>>)>>}

\* the field names of these corpora, and the catch-all field
AllFieldNames == {"a", "b", "revoked", CatchAll}

\* a field_exists that takes every answer for "no such field"
field_exists_Never(schema, field_name) == FALSE

\* SolrEngine.field_exists: GET schema/fields/<name> is answered 200 exactly
\* for a field of the schema
field_exists(schema, field_name) == field_name \in schema

InCache(cache, field_name) == HasKey(cache, field_name)

\* cache[field_name] = definition
CachePut(cache, field_name, definition) ==
  IF HasKey(cache, field_name)
  THEN [cache EXCEPT !.defs[KeyIndex(cache, field_name)] = definition]
  ELSE [order |-> Append(cache.order, field_name),
        defs |-> Append(cache.defs, definition)]

Request(op, name, type, multi, status, known) ==
  [op |-> op, name |-> name, type |-> type, multiValued |-> multi,
   status |-> status, known |-> known]

\* the answer of the Solr core to add-field: 200 only for a field that the
\* schema does not have yet; any request may fail
AddFieldStatuses(schema, field_name) ==
  IF field_name \in schema THEN {400} ELSE {200, 400}

\* an add_field that updates the cache whatever the response status
add_field_CachesAlways(cache, schema, oks, field_name, field_type, multiValued, status) ==
  LET recorded == IF field_name = "revoked" THEN "booleans" ELSE field_type
      known == InCache(cache, field_name) \/ field_name \in schema
      req == Request("add-field", field_name, "text_en", multiValued, status, known)
  IN [cache |-> CachePut(cache, field_name, FieldDef(recorded, multiValued)),
      schema |-> IF status = 200 THEN schema \cup {field_name} ELSE schema,
      oks |-> IF status = 200 THEN [oks EXCEPT ![field_name] = @ + 1] ELSE oks,
      req |-> req]

\* SolrEngine.add_field: the request always carries type text_en; the cache is
\* updated on status 200 with field_type (booleans for the field revoked)
add_field(cache, schema, oks, field_name, field_type, multiValued, status) ==
  LET recorded == IF field_name = "revoked" THEN "booleans" ELSE field_type
      known == InCache(cache, field_name) \/ field_name \in schema
      req == Request("add-field", field_name, "text_en", multiValued, status, known)
  IN IF status # 200
     THEN [cache |-> cache, schema |-> schema, oks |-> oks, req |-> req]
     ELSE [cache |-> CachePut(cache, field_name, FieldDef(recorded, multiValued)),
           schema |-> schema \cup {field_name},
           oks |-> [oks EXCEPT ![field_name] = @ + 1],
           req |-> req]

ExistsRequest(cache, schema, field_name) ==
  Request("field-exists", field_name, "", FALSE,
          IF field_name \in schema THEN 200 ELSE 404,
          InCache(cache, field_name) \/ field_name \in schema)

\* a SolrEngine instance after __init__, on a core whose schema has `schema`
SchemaEntry(schema) ==
  /\ created_fields = EmptyFieldDefs
  /\ liveSchema = schema
  /\ copyRules = 0
  /\ csPc = "uninitialized"
  /\ csDefs = EmptyFieldDefs
  /\ csIdx = 1
  /\ csCalls = 0
  /\ requests = <<>>
  /\ addOk = [f \in AllFieldNames |-> 0]

SchemaIdle == SchemaEntry({})

\* create_core_schema(docs), line 316: field_defs = gather_field_definitions(docs)
CreateCoreSchema_Gather ==
  /\ csPc \in {"uninitialized", "ready"}
  /\ csCalls < MaxSchemaCalls
  /\ \E docs \in SchemaCorpora :
       csDefs' = gather_field_definitions(docs, TRUE)
  /\ csIdx' = 1
  /\ csPc' = "declaring"
  /\ csCalls' = csCalls + 1
  /\ requests' = <<>>
  /\ UNCHANGED <<created_fields, liveSchema, copyRules, addOk>>

CurrentField == csDefs.order[csIdx]

Declaring == csPc = "declaring" /\ csIdx <= Len(csDefs.order)

\* a loop body that asks the core about a field it has in created_fields
DeclareField_Cached_Asks ==
  /\ Declaring
  /\ InCache(created_fields, CurrentField)
  /\ requests' = Append(requests, ExistsRequest(created_fields, liveSchema, CurrentField))
  /\ csIdx' = csIdx + 1
  /\ UNCHANGED <<created_fields, liveSchema, copyRules, csPc, csDefs, csCalls, addOk>>

\* loop body, `if field in self.created_fields: continue`
DeclareField_Cached ==
  /\ Declaring
  /\ InCache(created_fields, CurrentField)
  /\ csIdx' = csIdx + 1
  /\ UNCHANGED <<created_fields, liveSchema, copyRules, csPc, csDefs, csCalls,
                 requests, addOk>>

\* loop body, `if self.field_exists(field): self.created_fields[field] = definition`
DeclareField_Exists ==
  /\ Declaring
  /\ ~InCache(created_fields, CurrentField)
  /\ field_exists(liveSchema, CurrentField)
  /\ created_fields' = CachePut(created_fields, CurrentField, csDefs.defs[csIdx])
  /\ requests' = Append(requests, ExistsRequest(created_fields, liveSchema, CurrentField))
  /\ csIdx' = csIdx + 1
  /\ UNCHANGED <<liveSchema, copyRules, csPc, csDefs, csCalls, addOk>>

\* loop body, `self.add_field(field_name=field, ...)`
DeclareField_Add ==
  /\ Declaring
  /\ ~InCache(created_fields, CurrentField)
  /\ ~field_exists(liveSchema, CurrentField)
  /\ \E status \in AddFieldStatuses(liveSchema, CurrentField) :
       LET definition == csDefs.defs[csIdx]
           out == add_field(created_fields, liveSchema, addOk, CurrentField,
                            definition.type, definition.multiValued, status)
       IN /\ created_fields' = out.cache
          /\ liveSchema' = out.schema
          /\ addOk' = out.oks
          /\ requests' = requests \o
               <<ExistsRequest(created_fields, liveSchema, CurrentField), out.req>>
  /\ csIdx' = csIdx + 1
  /\ UNCHANGED <<copyRules, csPc, csDefs, csCalls>>

\* a loop exit that does not wait for the last inferred field
DeclareDone_Early ==
  /\ csPc = "declaring"
  /\ csPc' = "catchall"
  /\ UNCHANGED <<created_fields, liveSchema, copyRules, csDefs, csIdx, csCalls,
                 requests, addOk>>

\* the loop over field_defs.items() is exhausted: self.add_catchall_field()
DeclareDone ==
  /\ csPc = "declaring"
  /\ csIdx > Len(csDefs.order)
  /\ csPc' = "catchall"
  /\ UNCHANGED <<created_fields, liveSchema, copyRules, csDefs, csIdx, csCalls,
                 requests, addOk>>

\* add_catchall_field, lines 346-352: create _text_ unless it exists
AddCatchall ==
  /\ csPc = "catchall"
  /\ IF ~field_exists(liveSchema, CatchAll)
     THEN \E status \in AddFieldStatuses(liveSchema, CatchAll) :
            LET out == add_field(created_fields, liveSchema, addOk, CatchAll,
                                 "text_general", TRUE, status)
            IN /\ created_fields' = out.cache
               /\ liveSchema' = out.schema
               /\ addOk' = out.oks
               /\ requests' = requests \o
                    <<ExistsRequest(created_fields, liveSchema, CatchAll), out.req>>
     ELSE /\ requests' = Append(requests,
                                ExistsRequest(created_fields, liveSchema, CatchAll))
          /\ UNCHANGED <<created_fields, liveSchema, addOk>>
  /\ csPc' = "copyfield"
  /\ UNCHANGED <<copyRules, csDefs, csIdx, csCalls>>

\* add_catchall_field, lines 354-360: the add-copy-field request
AddCopyField ==
  /\ csPc = "copyfield"
  /\ \E status \in {200, 400} :
       /\ requests' = Append(requests,
                             Request("add-copy-field", "*", "", FALSE, status, FALSE))
       /\ copyRules' = IF status = 200 THEN copyRules + 1 ELSE copyRules
  /\ csPc' = "ready"
  /\ UNCHANGED <<created_fields, liveSchema, csDefs, csIdx, csCalls, addOk>>

(* ------------------------------------------------------------------------ *)
(* main() and MISPPerfTester.run_multiple_search_tests                        *)
(* ------------------------------------------------------------------------ *)
\* res["avg_latency"] * 1000
Times1000(q) == [num |-> q.num * 1000, den |-> q.den]

\* results = {engine.name: {m: [] for m in metrics} for engine in self.engines}
EmptyResults == [e \in EngineNames |-> [m \in MetricNames |-> <<>>]]

\* main() after MISPPerfTester(...) is constructed; the create_core_schema,
\* cleanup, run_indexing_tests and run_search_tests calls are commented out
MainEntry(n) ==
  /\ mainPc = "sweep"
  /\ num_search = n
  /\ qIdx = 1
  /\ eIdx = 1
  /\ results = EmptyResults
  /\ solrCalledIn = {}
  /\ runLog = <<>>

MainIdle == MainEntry(0)

\* appends that put the newest value first
AppendResults_Front(r, name, res) ==
  [r EXCEPT
     ![name]["avg_latency"] = <<Times1000(res.avg_latency)>> \o @,
     ![name]["median_latency"] = <<Times1000(res.median_latency)>> \o @,
     ![name]["throughput"] = <<res.throughput>> \o @,
     ![name]["errors"] = <<res.errors>> \o @]

\* the four results[engine.name][...].append(...) of one load run
AppendResults(r, name, res) ==
  [r EXCEPT
     ![name]["avg_latency"] = Append(@, Times1000(res.avg_latency)),
     ![name]["median_latency"] = Append(@, Times1000(res.median_latency)),
     ![name]["throughput"] = Append(@, res.throughput),
     ![name]["errors"] = Append(@, res.errors)]

\* res = engine.search(q, self.num_search, self.concurrency): the call enters
\* _run_search_test of the engine
MainCallSearch ==
  /\ mainPc = "sweep"
  /\ qIdx <= Len(Queries)
  /\ mainPc' = "searching"
  /\ ldEngine' = Engines[eIdx]
  /\ num_requests' = num_search
  /\ ldPc' = "submit"
  /\ futures' = <<>>
  /\ consumed' = {}
  /\ latencies' = <<>>
  /\ errors' = 0
  /\ start_time' = now
  /\ result' = <<>>
  /\ solrCalledIn' = IF Engines[eIdx] = "Solr"
                      THEN solrCalledIn \cup {csPc}
                      ELSE solrCalledIn
  /\ UNCHANGED <<concurrency, now, num_search, qIdx, eIdx, results, runLog>>

\* engine.search returned: the four appends, then the next engine or query
MainSearchReturn ==
  /\ mainPc = "searching"
  /\ ldPc = "done"
  /\ results' = AppendResults(results, Engines[eIdx], result[1])
  /\ runLog' = Append(runLog, [q |-> qIdx, engine |-> Engines[eIdx], res |-> result[1]])
  /\ IF eIdx < Len(Engines)
     THEN eIdx' = eIdx + 1 /\ UNCHANGED qIdx
     ELSE eIdx' = 1 /\ qIdx' = qIdx + 1
  /\ mainPc' = "sweep"
  /\ UNCHANGED <<num_search, solrCalledIn>>

\* engine.search raised: the exception leaves run_multiple_search_tests and main
MainSearchRaised ==
  /\ mainPc = "searching"
  /\ ldPc = "raised"
  /\ mainPc' = "raised"
  /\ UNCHANGED <<num_search, qIdx, eIdx, results, solrCalledIn, runLog>>

\* return queries, results
MainSweepReturn ==
  /\ mainPc = "sweep"
  /\ qIdx > Len(Queries)
  /\ mainPc' = "plot"
  /\ UNCHANGED <<num_search, qIdx, eIdx, results, solrCalledIn, runLog>>

\* tester.plot_results(queries, results)
MainPlot ==
  /\ mainPc = "plot"
  /\ mainPc' = "done"
  /\ UNCHANGED <<num_search, qIdx, eIdx, results, solrCalledIn, runLog>>

(* ------------------------------------------------------------------------ *)
(* MISPPerfTester.run_indexing_tests and run_search_tests                     *)
(* ------------------------------------------------------------------------ *)
TesterMethods == {"run_indexing_tests", "run_search_tests", "run_multiple_search_tests"}

\* entry of a MISPPerfTester method
TesterEntry(method, ndocs) ==
  /\ tsMethod = method
  /\ tsPc = "loop"
  /\ tsIdx = 1
  /\ tsDocs = ndocs
  /\ tsLog = <<>>

TesterIdle == TesterEntry("run_multiple_search_tests", 0)

\* run_indexing_tests: elapsed = engine.index_documents(self.documents)
TesterCallIndex ==
  /\ tsMethod = "run_indexing_tests"
  /\ tsPc = "loop"
  /\ tsIdx <= Len(Engines)
  /\ tsPc' = "calling"
  /\ tsLog' = Append(tsLog, Engines[tsIdx])
  /\ ixEngine' = Engines[tsIdx]
  /\ ixDocs' = tsDocs
  /\ ixPc' = "prepare"
  /\ ixPos' = 1
  /\ ixSent' = [d \in 1..tsDocs |-> "unsent"]
  /\ ixStart' = ixNow
  /\ ixElapsed' = <<>>
  /\ UNCHANGED <<ixNow, tsMethod, tsIdx, tsDocs>>

\* run_search_tests: result = engine.search(self.query, self.num_search,
\* self.concurrency)
TesterCallSearch ==
  /\ tsMethod = "run_search_tests"
  /\ tsPc = "loop"
  /\ tsIdx <= Len(Engines)
  /\ tsPc' = "calling"
  /\ tsLog' = Append(tsLog, Engines[tsIdx])
  /\ ldEngine' = Engines[tsIdx]
  /\ num_requests' = num_search
  /\ ldPc' = "submit"
  /\ futures' = <<>>
  /\ consumed' = {}
  /\ latencies' = <<>>
  /\ errors' = 0
  /\ start_time' = now
  /\ result' = <<>>
  /\ UNCHANGED <<concurrency, now, tsMethod, tsIdx, tsDocs>>

\* the called method of the engine has returned or raised
CallEnded ==
  IF tsMethod = "run_indexing_tests" THEN IndexTerminated ELSE LoadTerminated

CallRaised ==
  IF tsMethod = "run_indexing_tests" THEN ixPc = "raised" ELSE ldPc = "raised"

\* the call returned: the results are printed, the loop goes to the next engine
TesterCallReturn ==
  /\ tsMethod \in {"run_indexing_tests", "run_search_tests"}
  /\ tsPc = "calling"
  /\ CallEnded
  /\ ~CallRaised
  /\ tsIdx' = tsIdx + 1
  /\ tsPc' = "loop"
  /\ UNCHANGED <<tsMethod, tsDocs, tsLog>>

\* the call raised: the exception leaves the loop and the method
TesterCallRaised ==
  /\ tsMethod \in {"run_indexing_tests", "run_search_tests"}
  /\ tsPc = "calling"
  /\ CallRaised
  /\ tsPc' = "raised"
  /\ UNCHANGED <<tsMethod, tsIdx, tsDocs, tsLog>>

\* the loop over self.engines is exhausted
TesterReturn ==
  /\ tsMethod \in {"run_indexing_tests", "run_search_tests"}
  /\ tsPc = "loop"
  /\ tsIdx > Len(Engines)
  /\ tsPc' = "done"
  /\ UNCHANGED <<tsMethod, tsIdx, tsDocs, tsLog>>

\* a search call of the tester is in progress
SearchCallActive ==
  \/ tsMethod = "run_search_tests" /\ tsPc = "calling"
  \/ tsMethod = "run_multiple_search_tests" /\ mainPc = "searching"

IndexCallActive == tsMethod = "run_indexing_tests" /\ tsPc = "calling"

(* ------------------------------------------------------------------------ *)
(* Specifications                                                             *)
(* ------------------------------------------------------------------------ *)
LoadInit ==
  /\ \E e \in EngineNames, n \in 0..MaxRequests, c \in 1..MaxConcurrency :
       LoadEntry(e, n, c, 0)
  /\ IndexIdle
  /\ CleanupIdle
  /\ ScanIdle
  /\ SchemaIdle
  /\ MainIdle
  /\ TesterIdle

LoadNext ==
  \/ Submit /\ UNCHANGED <<indexVars, cleanupVars, scanVars, schemaVars, mainVars, testerVars>>
  \/ SubmitDone /\ UNCHANGED <<indexVars, cleanupVars, scanVars, schemaVars, mainVars, testerVars>>
  \/ WorkerStart /\ UNCHANGED <<indexVars, cleanupVars, scanVars, schemaVars, mainVars, testerVars>>
  \/ WorkerFinish /\ UNCHANGED <<indexVars, cleanupVars, scanVars, schemaVars, mainVars, testerVars>>
  \/ Collect /\ UNCHANGED <<indexVars, cleanupVars, scanVars, schemaVars, mainVars, testerVars>>
  \/ CollectDone /\ UNCHANGED <<indexVars, cleanupVars, scanVars, schemaVars, mainVars, testerVars>>
  \/ ShutdownWait /\ UNCHANGED <<indexVars, cleanupVars, scanVars, schemaVars, mainVars, testerVars>>
  \/ ComputeMetrics /\ UNCHANGED <<indexVars, cleanupVars, scanVars, schemaVars, mainVars, testerVars>>
  \/ Tick /\ UNCHANGED <<indexVars, cleanupVars, scanVars, schemaVars, mainVars, testerVars>>

SpecLoad == LoadInit /\ [][LoadNext]_vars

\* the steps of a load run other than the passing of time
LoadProgress ==
  /\ \/ Submit
     \/ SubmitDone
     \/ WorkerStart
     \/ WorkerFinish
     \/ Collect
     \/ CollectDone
     \/ ShutdownWait
     \/ ComputeMetrics
  /\ UNCHANGED <<indexVars, cleanupVars, scanVars, schemaVars, mainVars, testerVars>>

\* the calling thread and the pool threads are scheduled, and every request
\* that is in flight eventually returns or raises
SpecLoadFair == SpecLoad /\ WF_vars(LoadProgress)

IndexInit ==
  /\ \E e \in EngineNames, n \in 0..MaxDocs : IndexEntry(e, n)
  /\ LoadIdle
  /\ CleanupIdle
  /\ ScanIdle
  /\ SchemaIdle
  /\ MainIdle
  /\ TesterIdle

IndexNext ==
  \/ IndexPrepare /\ UNCHANGED <<loadVars, cleanupVars, scanVars, schemaVars, mainVars, testerVars>>
  \/ OpenSearch_IndexDoc /\ UNCHANGED <<loadVars, cleanupVars, scanVars, schemaVars, mainVars, testerVars>>
  \/ Meilisearch_IndexDoc /\ UNCHANGED <<loadVars, cleanupVars, scanVars, schemaVars, mainVars, testerVars>>
  \/ Solr_AddDocs /\ UNCHANGED <<loadVars, cleanupVars, scanVars, schemaVars, mainVars, testerVars>>
  \/ IndexReturn /\ UNCHANGED <<loadVars, cleanupVars, scanVars, schemaVars, mainVars, testerVars>>
  \/ IndexTick /\ UNCHANGED <<loadVars, cleanupVars, scanVars, schemaVars, mainVars, testerVars>>

SpecIndex == IndexInit /\ [][IndexNext]_vars

CleanupInit ==
  /\ \E data \in [EngineNames -> BOOLEAN] : CleanupEntry(data, 1)
  /\ LoadIdle
  /\ IndexIdle
  /\ ScanIdle
  /\ SchemaIdle
  /\ MainIdle
  /\ TesterIdle

CleanupNext ==
  \/ TesterCleanupStep /\ UNCHANGED <<loadVars, indexVars, scanVars, schemaVars, mainVars, testerVars>>
  \/ TesterCleanupReturn /\ UNCHANGED <<loadVars, indexVars, scanVars, schemaVars, mainVars, testerVars>>
  \/ TesterCleanupAgain /\ UNCHANGED <<loadVars, indexVars, scanVars, schemaVars, mainVars, testerVars>>

SpecCleanup == CleanupInit /\ [][CleanupNext]_vars

ScanInit ==
  /\ \E docs \in SeqsUpTo(ScanDocs, MaxCorpus), flatten \in BOOLEAN :
       ScanEntry(docs, flatten)
  /\ LoadIdle
  /\ IndexIdle
  /\ CleanupIdle
  /\ SchemaIdle
  /\ MainIdle
  /\ TesterIdle

ScanNext ==
  \/ ScanDoc /\ UNCHANGED <<loadVars, indexVars, cleanupVars, schemaVars, mainVars, testerVars>>
  \/ ScanRaise /\ UNCHANGED <<loadVars, indexVars, cleanupVars, schemaVars, mainVars, testerVars>>
  \/ ScanReturn /\ UNCHANGED <<loadVars, indexVars, cleanupVars, schemaVars, mainVars, testerVars>>

SpecScan == ScanInit /\ [][ScanNext]_vars

SchemaInit ==
  /\ \E schema \in SUBSET AllFieldNames : SchemaEntry(schema)
  /\ LoadIdle
  /\ IndexIdle
  /\ CleanupIdle
  /\ ScanIdle
  /\ MainIdle
  /\ TesterIdle

SchemaNext ==
  \/ CreateCoreSchema_Gather /\ UNCHANGED <<loadVars, indexVars, cleanupVars, scanVars, mainVars, testerVars>>
  \/ DeclareField_Cached /\ UNCHANGED <<loadVars, indexVars, cleanupVars, scanVars, mainVars, testerVars>>
  \/ DeclareField_Exists /\ UNCHANGED <<loadVars, indexVars, cleanupVars, scanVars, mainVars, testerVars>>
  \/ DeclareField_Add /\ UNCHANGED <<loadVars, indexVars, cleanupVars, scanVars, mainVars, testerVars>>
  \/ DeclareDone /\ UNCHANGED <<loadVars, indexVars, cleanupVars, scanVars, mainVars, testerVars>>
  \/ AddCatchall /\ UNCHANGED <<loadVars, indexVars, cleanupVars, scanVars, mainVars, testerVars>>
  \/ AddCopyField /\ UNCHANGED <<loadVars, indexVars, cleanupVars, scanVars, mainVars, testerVars>>

SpecSchema == SchemaInit /\ [][SchemaNext]_vars

\* the number of requests that failed so far in the sweep
SweepFailures ==
  SumSeq(results["OpenSearch"]["errors"])
    + (IF mainPc = "searching" THEN Cardinality(FailedRequests) ELSE 0)

MainInit ==
  /\ \E n \in 0..MaxSweepRequests, c \in 1..MaxSweepConcurrency :
       /\ MainEntry(n)
       /\ LoadEntry("OpenSearch", 0, c, 0)
  /\ IndexIdle
  /\ CleanupIdle
  /\ ScanIdle
  /\ SchemaIdle
  /\ TesterIdle

MainNext ==
  \/ MainCallSearch /\ UNCHANGED <<indexVars, cleanupVars, scanVars, schemaVars, testerVars>>
  \/ MainSearchReturn /\ UNCHANGED <<loadVars, indexVars, cleanupVars, scanVars, schemaVars, testerVars>>
  \/ MainSearchRaised /\ UNCHANGED <<loadVars, indexVars, cleanupVars, scanVars, schemaVars, testerVars>>
  \/ MainSweepReturn /\ UNCHANGED <<loadVars, indexVars, cleanupVars, scanVars, schemaVars, testerVars>>
  \/ MainPlot /\ UNCHANGED <<loadVars, indexVars, cleanupVars, scanVars, schemaVars, testerVars>>
  \/ mainPc = "searching" /\ Submit
       /\ UNCHANGED <<indexVars, cleanupVars, scanVars, schemaVars, mainVars, testerVars>>
  \/ mainPc = "searching" /\ SubmitDone
       /\ UNCHANGED <<indexVars, cleanupVars, scanVars, schemaVars, mainVars, testerVars>>
  \/ mainPc = "searching" /\ WorkerStart
       /\ UNCHANGED <<indexVars, cleanupVars, scanVars, schemaVars, mainVars, testerVars>>
  \/ mainPc = "searching" /\ WorkerFinish
       /\ UNCHANGED <<indexVars, cleanupVars, scanVars, schemaVars, mainVars, testerVars>>
       /\ SweepFailures' <= MaxSweepFailures
  \/ mainPc = "searching" /\ Collect
       /\ UNCHANGED <<indexVars, cleanupVars, scanVars, schemaVars, mainVars, testerVars>>
  \/ mainPc = "searching" /\ CollectDone
       /\ UNCHANGED <<indexVars, cleanupVars, scanVars, schemaVars, mainVars, testerVars>>
  \/ mainPc = "searching" /\ ShutdownWait
       /\ UNCHANGED <<indexVars, cleanupVars, scanVars, schemaVars, mainVars, testerVars>>
  \/ mainPc = "searching" /\ ComputeMetrics
       /\ UNCHANGED <<indexVars, cleanupVars, scanVars, schemaVars, mainVars, testerVars>>
  \/ mainPc = "searching" /\ now < MaxSweepTime /\ Running # {} /\ Tick
       /\ UNCHANGED <<indexVars, cleanupVars, scanVars, schemaVars, mainVars, testerVars>>

SpecMain == MainInit /\ [][MainNext]_vars

TesterInit ==
  /\ \E method \in TesterMethods, ndocs \in 0..MaxTesterDocs :
       TesterEntry(method, ndocs)
  /\ \E n \in 0..MaxTesterRequests, c \in 1..MaxSweepConcurrency :
       /\ tsMethod = "run_multiple_search_tests" => n <= MaxSweepRequests
       /\ tsMethod = "run_indexing_tests" => n = 0 /\ c = 1
       /\ tsMethod # "run_indexing_tests" => tsDocs = 0
       /\ MainEntry(n)
       /\ LoadEntry("OpenSearch", 0, c, 0)
  /\ IndexIdle
  /\ CleanupIdle
  /\ ScanIdle
  /\ SchemaIdle

IsSweep == tsMethod = "run_multiple_search_tests"

TesterNext ==
  \/ TesterCallIndex
       /\ UNCHANGED <<loadVars, cleanupVars, scanVars, schemaVars, mainVars>>
  \/ TesterCallSearch
       /\ UNCHANGED <<indexVars, cleanupVars, scanVars, schemaVars, mainVars>>
  \/ TesterCallReturn
       /\ UNCHANGED <<loadVars, indexVars, cleanupVars, scanVars, schemaVars, mainVars>>
  \/ TesterCallRaised
       /\ UNCHANGED <<loadVars, indexVars, cleanupVars, scanVars, schemaVars, mainVars>>
  \/ TesterReturn
       /\ UNCHANGED <<loadVars, indexVars, cleanupVars, scanVars, schemaVars, mainVars>>
  \/ IsSweep /\ MainCallSearch
       /\ UNCHANGED <<indexVars, cleanupVars, scanVars, schemaVars, testerVars>>
  \/ IsSweep /\ MainSearchReturn
       /\ UNCHANGED <<loadVars, indexVars, cleanupVars, scanVars, schemaVars, testerVars>>
  \/ IsSweep /\ MainSearchRaised
       /\ UNCHANGED <<loadVars, indexVars, cleanupVars, scanVars, schemaVars, testerVars>>
  \/ IsSweep /\ MainSweepReturn
       /\ UNCHANGED <<loadVars, indexVars, cleanupVars, scanVars, schemaVars, testerVars>>
  \/ SearchCallActive /\ Submit
       /\ UNCHANGED <<indexVars, cleanupVars, scanVars, schemaVars, mainVars, testerVars>>
  \/ SearchCallActive /\ SubmitDone
       /\ UNCHANGED <<indexVars, cleanupVars, scanVars, schemaVars, mainVars, testerVars>>
  \/ SearchCallActive /\ WorkerStart
       /\ UNCHANGED <<indexVars, cleanupVars, scanVars, schemaVars, mainVars, testerVars>>
  \/ SearchCallActive /\ WorkerFinish
       /\ UNCHANGED <<indexVars, cleanupVars, scanVars, schemaVars, mainVars, testerVars>>
       /\ SweepFailures' <= MaxSweepFailures
  \/ SearchCallActive /\ Collect
       /\ UNCHANGED <<indexVars, cleanupVars, scanVars, schemaVars, mainVars, testerVars>>
  \/ SearchCallActive /\ CollectDone
       /\ UNCHANGED <<indexVars, cleanupVars, scanVars, schemaVars, mainVars, testerVars>>
  \/ SearchCallActive /\ ShutdownWait
       /\ UNCHANGED <<indexVars, cleanupVars, scanVars, schemaVars, mainVars, testerVars>>
  \/ SearchCallActive /\ ComputeMetrics
       /\ UNCHANGED <<indexVars, cleanupVars, scanVars, schemaVars, mainVars, testerVars>>
  \/ SearchCallActive /\ now < MaxSweepTime /\ Running # {} /\ Tick
       /\ UNCHANGED <<indexVars, cleanupVars, scanVars, schemaVars, mainVars, testerVars>>
  \/ IndexCallActive /\ IndexPrepare
       /\ UNCHANGED <<loadVars, cleanupVars, scanVars, schemaVars, mainVars, testerVars>>
  \/ IndexCallActive /\ OpenSearch_IndexDoc
       /\ UNCHANGED <<loadVars, cleanupVars, scanVars, schemaVars, mainVars, testerVars>>
  \/ IndexCallActive /\ Meilisearch_IndexDoc
       /\ UNCHANGED <<loadVars, cleanupVars, scanVars, schemaVars, mainVars, testerVars>>
  \/ IndexCallActive /\ Solr_AddDocs
       /\ UNCHANGED <<loadVars, cleanupVars, scanVars, schemaVars, mainVars, testerVars>>
  \/ IndexCallActive /\ IndexReturn
       /\ UNCHANGED <<loadVars, cleanupVars, scanVars, schemaVars, mainVars, testerVars>>
  \/ IndexCallActive /\ IndexTick
       /\ UNCHANGED <<loadVars, cleanupVars, scanVars, schemaVars, mainVars, testerVars>>

SpecTester == TesterInit /\ [][TesterNext]_vars

(* ------------------------------------------------------------------------ *)
(* Properties of the load run                                                 *)
(* ------------------------------------------------------------------------ *)

\* C1: every search() call, whatever the mix of succeeding and failing
\* requests, ends by returning a Metrics record with
\* total_requests = successful + errors = num_requests.
AllRequestsAccounted ==
  LoadTerminated =>
    /\ result # <<>>
    /\ result[1].total_requests = result[1].successful + result[1].errors
    /\ result[1].total_requests = num_requests

\* C2: a failed request is one increment of errors, is not invoked again,
\* and does not propagate out of search(): the run still returns Metrics.
FailureCountedNotPropagated ==
  (LoadTerminated /\ FailedRequests # {}) =>
    /\ ldPc = "done"
    /\ result # <<>>
    /\ result[1].errors = Cardinality(FailedRequests)
    /\ \A i \in FutureIds : futures[i].calls = 1

AllRequestsFailed ==
  /\ Len(futures) = num_requests
  /\ FailedRequests = FutureIds

\* C3: when every request of the run fails, the Metrics have successful = 0,
\* errors = num_requests and avg_latency = median_latency = 0.
AllFailedMetrics ==
  (LoadTerminated /\ AllRequestsFailed) =>
    /\ result # <<>>
    /\ result[1].successful = 0
    /\ result[1].errors = num_requests
    /\ IsZero(result[1].avg_latency)
    /\ IsZero(result[1].median_latency)

\* C4: with num_requests = 0 the operation is never invoked, nothing is
\* raised, and the Metrics returned are all zero.
ZeroRequestsMetrics ==
  num_requests = 0 =>
    /\ futures = <<>>
    /\ ldPc \notin {"unwinding", "raised"}
    /\ ldPc = "done" =>
         /\ result # <<>>
         /\ result[1].total_requests = 0
         /\ result[1].successful = 0
         /\ result[1].errors = 0
         /\ IsZero(result[1].avg_latency)
         /\ IsZero(result[1].median_latency)
         /\ IsZero(result[1].throughput)

\* a run of zero requests has returned after a measurable elapsed time
ZeroRequestsReturned ==
  /\ num_requests = 0
  /\ ldPc = "done"
  /\ result # <<>>
  /\ now - start_time > 0

\* C13: exactly num_requests invocations are submitted, each is started at
\* most once, and at no time are more than concurrency of them in flight.
BoundedInFlight ==
  /\ Cardinality(Running) <= concurrency
  /\ Len(futures) <= num_requests
  /\ ldPc # "submit" => Len(futures) = num_requests
  /\ \A i \in FutureIds :
       futures[i].calls = (IF futures[i].st = "queued" THEN 0 ELSE 1)

\* the pool is saturated: concurrency requests in flight and one waiting
PoolSaturated ==
  /\ Cardinality(Running) = concurrency
  /\ Queued # {}
  /\ ldPc = "collect"

\* C14: search returns, with Metrics or with an exception, only after every
\* one of the num_requests submitted invocations has completed; none is in
\* flight or waiting once the call has returned.
NoPartialResults ==
  LoadTerminated =>
    /\ Len(futures) = num_requests
    /\ Finished = FutureIds
    /\ result # <<>> => consumed = FutureIds

\* a call left by an exception after waiting for requests it never collected
RaisedAfterWaiting ==
  /\ ldPc = "raised"
  /\ Finished = FutureIds
  /\ consumed # FutureIds
  /\ Len(futures) >= 2

\* C16: every load run eventually terminates, and it does so with each of its
\* num_requests invocations started once and run to completion or failure.
LoadRunTerminates ==
  <>(/\ LoadTerminated
     /\ Len(futures) = num_requests
     /\ \A i \in FutureIds : futures[i].st = "finished" /\ futures[i].calls = 1)

\* a run with more requests than pool threads has terminated
QueuedRunTerminated ==
  /\ LoadTerminated
  /\ num_requests > concurrency
  /\ \A i \in FutureIds : futures[i].st = "finished"

(* ------------------------------------------------------------------------ *)
(* Properties of index_documents                                              *)
(* ------------------------------------------------------------------------ *)

\* C5: a failure while indexing one document is swallowed: index_documents
\* still returns an elapsed duration and every document of the batch has been
\* submitted for indexing.
IndexingFailureSwallowed ==
  (IndexTerminated /\ \E d \in DocIds : ixSent[d] = "failed") =>
    /\ ixPc = "done"
    /\ ixElapsed # <<>>
    /\ \A d \in DocIds : ixSent[d] # "unsent"

(* ------------------------------------------------------------------------ *)
(* Properties of cleanup                                                      *)
(* ------------------------------------------------------------------------ *)

\* C6: whenever MISPPerfTester.cleanup() has ended, normally or not, cleanup
\* has been invoked on every configured backend.
CleanupAttemptedOnAll ==
  CleanupTerminated => \A e \in EngineNames : clCalls[e] >= 1

\* C7: cleanup() of a reachable backend whose benchmark data is already
\* absent does not raise and leaves the backend clean.
CleanupIdempotent ==
  (clLast.called /\ clLast.wasClean /\ clLast.netOk) =>
    /\ ~clLast.raised
    /\ ~hasData[clLast.engine]

(* ------------------------------------------------------------------------ *)
(* Properties of the scan                                                     *)
(* ------------------------------------------------------------------------ *)
Permuted(docs, p) == [i \in 1..Len(docs) |-> docs[p[i]]]

ReverseSeq(q) == [i \in 1..Len(q) |-> q[Len(q) + 1 - i]]

\* the same documents with the items of each in the opposite order
ItemsReversed(docs) ==
  [i \in 1..Len(docs) |-> [docs[i] EXCEPT !.body = ReverseSeq(@)]]

\* the observations of a scan: one <<key, inferred definition>> per value
\* that reaches infer_field_definition
RECURSIVE ObservedIn(_, _)
ObservedIn(items, flatten) ==
  IF items = <<>> THEN {}
  ELSE LET value == Head(items)
           here == IF flatten /\ IsInstance(value, "dict")
                   THEN ObservedIn(value.body, flatten)
                   ELSE IF /\ flatten
                           /\ IsInstance(value, "list")
                           /\ value.body # <<>>
                           /\ IsInstance(value.body[1], "dict")
                   THEN UNION {ObservedIn(value.body[j].body, flatten) :
                                 j \in 1..Len(value.body)}
                   ELSE {<<value.key, infer_field_definition(value)>>}
       IN here \cup ObservedIn(Tail(items), flatten)

Observed == UNION {ObservedIn(corpus[i].body, scFlatten) : i \in 1..Len(corpus)}

\* C8: the merge of two inferred definitions of a key is commutative and
\* idempotent, and the result of gather_field_definitions is the same mapping
\* for every order of the documents and of the items inside them.
MergeOrderIndependent ==
  scPc = "done" =>
    /\ \A a, b \in Observed :
         a[1] = b[1] =>
           /\ MergeFieldDef(a[2], b[2]) = MergeFieldDef(b[2], a[2])
           /\ MergeFieldDef(a[2], a[2]) = a[2]
    /\ \A p \in Permutations(1..Len(corpus)) :
         AsMapping(gather_field_definitions(Permuted(corpus, p), scFlatten))
           = AsMapping(field_defs)
    /\ AsMapping(gather_field_definitions(ItemsReversed(corpus), scFlatten))
         = AsMapping(field_defs)

\* a finished scan in which one key was observed with two definitions that
\* differ in type and in multiValued
ConflictingObservationsScanned ==
  /\ scPc = "done"
  /\ Len(corpus) >= 2
  /\ \E a, b \in Observed :
       /\ a[1] = b[1]
       /\ a[2].type # b[2].type
       /\ a[2].multiValued # b[2].multiValued

\* a value that is a field of its own: a scalar, null or a list other than a
\* non-empty list of mappings
IsLeaf(value) ==
  /\ value.k # "dict"
  /\ ~(/\ value.k = "list"
        /\ value.body # <<>>
        /\ \A j \in 1..Len(value.body) : value.body[j].k = "dict")

\* the keys that occur with a leaf value at any depth below the items
RECURSIVE LeafKeys(_)
LeafKeys(items) ==
  UNION {LET value == items[i] IN
         IF IsLeaf(value) THEN {value.key}
         ELSE IF value.k = "dict" THEN LeafKeys(value.body)
         ELSE UNION {LeafKeys(value.body[j].body) : j \in 1..Len(value.body)}
         : i \in 1..Len(items)}

ScannedLeafKeys == UNION {LeafKeys(corpus[i].body) : i \in 1..(scPos - 1)}

KeysOf(fd) == {fd.order[i] : i \in 1..Len(fd.order)}

\* C19: scanning with flattening never drops a field and never declares a
\* mapping as a field: the keys of field_defs are the keys that occurred at any
\* depth with a scalar, null or scalar-list value in the documents scanned so
\* far, a mapping or a non-empty list of mappings adds no definition under its
\* own key, and the set of keys only grows.
FlattenKeepsLeaves ==
  /\ [](scFlatten =>
         /\ KeysOf(field_defs) = ScannedLeafKeys
         /\ \A i \in 1..Len(field_defs.defs) : field_defs.defs[i].type # "text_general")
  /\ [][KeysOf(field_defs) \subseteq KeysOf(field_defs')]_vars

\* a finished flattening scan over a nested mapping and a list of mappings:
\* their children are fields, the key they sit under is not
NestedChildrenDeclared ==
  /\ scPc = "done"
  /\ scFlatten
  /\ \E i, j \in 1..Len(corpus) :
       /\ \E m \in 1..Len(corpus[i].body) :
            /\ corpus[i].body[m].k = "dict"
            /\ corpus[i].body[m].key = "n"
            /\ corpus[i].body[m].body # <<>>
       /\ \E m \in 1..Len(corpus[j].body) :
            /\ corpus[j].body[m].k = "list"
            /\ corpus[j].body[m].key = "n"
            /\ corpus[j].body[m].body # <<>>
            /\ corpus[j].body[m].body[1].k = "dict"
  /\ HasKey(field_defs, "a")
  /\ ~HasKey(field_defs, "n")

\* the leaf values at any depth below the items, each with its key
RECURSIVE LeafOccurrences(_)
LeafOccurrences(items) ==
  UNION {LET value == items[i] IN
         IF IsLeaf(value) THEN {value}
         ELSE IF value.k = "dict" THEN LeafOccurrences(value.body)
         ELSE UNION {LeafOccurrences(value.body[j].body) : j \in 1..Len(value.body)}
         : i \in 1..Len(items)}

OccurrencesOf(key) ==
  {v \in UNION {LeafOccurrences(corpus[i].body) : i \in 1..Len(corpus)} : v.key = key}

\* the reference rule for the observations of one key
ReferenceDef(key) ==
  LET multi == \E v \in OccurrencesOf(key) : v.k = "list"
      types == {infer_field_definition(v).type : v \in OccurrencesOf(key)}
  IN FieldDef(IF Cardinality(types) = 1 THEN CHOOSE t \in types : TRUE
              ELSE IF multi THEN "strings" ELSE "string",
              multi)

TagsExample ==
  <<Dict("", <<List("tags", <<Scalar("", "int"), Scalar("", "int"), Scalar("", "int")>>)>>),
    Dict("", <<List("tags", <<Scalar("", "str")>>)>>)>>

\* C20: after a scan with flattening the definition of every key equals the
\* reference rule: multiValued iff some observation of the key was a list (an
\* empty list infers strings, a non-empty list is typed from its first
\* element), the type is the common inferred type when all observations agree
\* and otherwise strings if multiValued, string if not; [1,2,3] then ["a"]
\* under tags gives a multi-valued strings field.
MergedEqualsReference ==
  /\ (scPc = "done" /\ scFlatten) =>
       \A i \in 1..Len(field_defs.order) :
         field_defs.defs[i] = ReferenceDef(field_defs.order[i])
  /\ infer_field_definition(List("tags", <<>>)) = FieldDef("strings", TRUE)
  /\ infer_field_definition(TagsExample[1].body[1]) = FieldDef("pints", TRUE)
  /\ AsMapping(gather_field_definitions(TagsExample, TRUE))
       = {<<"tags", FieldDef("strings", TRUE)>>}

\* a finished flattening scan that saw one key first as a scalar and later as
\* a list of another type
ScalarThenListMerged ==
  /\ scPc = "done"
  /\ scFlatten
  /\ \E i, j \in 1..Len(corpus) :
       /\ i < j
       /\ \E v \in LeafOccurrences(corpus[i].body), w \in LeafOccurrences(corpus[j].body) :
            /\ v.key = w.key
            /\ v.k = "scalar"
            /\ w.k = "list"
            /\ w.body # <<>>
            /\ GetDef(field_defs, v.key) = FieldDef("strings", TRUE)

(* ------------------------------------------------------------------------ *)
(* Properties of the schema declaration                                       *)
(* ------------------------------------------------------------------------ *)

\* C10: over any sequence of create_core_schema calls, at most one add-field
\* request per field name succeeds, and no add-field request is issued for a
\* field that is in created_fields or in the live schema.
NeverRedeclared ==
  /\ \A f \in AllFieldNames : addOk[f] <= 1
  /\ \A i \in 1..Len(requests) :
       requests[i].op = "add-field" => ~requests[i].known

\* a later create_core_schema call has finished over a corpus holding a
\* field that an earlier call declared
DeclaredFieldSeenAgain ==
  /\ csCalls >= 2
  /\ csPc = "ready"
  /\ \E f \in AllFieldNames :
       /\ addOk[f] = 1
       /\ HasKey(csDefs, f)
       /\ \A i \in 1..Len(requests) : requests[i].name # f

FailedAdds ==
  {i \in 1..Len(requests) :
     requests[i].op = "add-field" /\ requests[i].status # 200}

CopyRequests == {i \in 1..Len(requests) : requests[i].op = "add-copy-field"}

\* the position in the log of the field-exists check of add_catchall_field
CatchAllCheck ==
  LET last == Len(requests) - Cardinality(CopyRequests)
  IN IF last > 0 /\ requests[last].op = "add-field" THEN last - 1 ELSE last

\* C17: in each create_core_schema call the catch-all declaration and the copy
\* rule request come after the check or add-field request of every inferred
\* field, exactly one copy rule request (source '*') is issued per call, and
\* the catch-all field is created only when the live schema lacks it.
CatchAllAfterFields ==
  /\ csPc \in {"declaring", "catchall", "copyfield"} => CopyRequests = {}
  /\ (csPc = "ready" /\ csCalls > 0) =>
       /\ CopyRequests = {Len(requests)}
       /\ requests[Len(requests)].name = "*"
  /\ csPc \in {"catchall", "copyfield"} \/ (csPc = "ready" /\ csCalls > 0) =>
       csIdx > Len(csDefs.order)
  /\ csPc = "copyfield" \/ (csPc = "ready" /\ csCalls > 0) =>
       /\ CatchAllCheck >= 1
       /\ requests[CatchAllCheck].op = "field-exists"
       /\ requests[CatchAllCheck].name = CatchAll
       /\ \A i \in 1..Len(requests) :
            /\ i >= CatchAllCheck => requests[i].name \in {CatchAll, "*"}
            /\ requests[i].name \notin {CatchAll, "*"} => i < CatchAllCheck
       /\ \A k \in 1..Len(csDefs.order) :
            \/ InCache(created_fields, csDefs.order[k])
            \/ \E i \in 1..Len(requests) :
                 /\ requests[i].name = csDefs.order[k]
                 /\ i < CatchAllCheck \/ csDefs.order[k] = CatchAll
  /\ \A i \in 1..Len(requests) :
       (requests[i].op = "add-field" /\ requests[i].name = CatchAll) =>
         /\ i > 1
         /\ requests[i - 1].op = "field-exists"
         /\ requests[i - 1].name = CatchAll
         /\ requests[i - 1].status # 200

\* a call has returned that issued requests for two inferred fields, then
\* created the catch-all field and issued the copy rule request
CatchAllCreatedLast ==
  /\ csPc = "ready"
  /\ CopyRequests # {}
  /\ CatchAllCheck = Len(requests) - 2
  /\ requests[Len(requests) - 1].op = "add-field"
  /\ requests[Len(requests) - 1].status = 200
  /\ \E i, j \in 1..(CatchAllCheck - 1) :
       /\ requests[i].name # requests[j].name
       /\ requests[i].name # CatchAll
       /\ requests[j].name # CatchAll

\* the requests one step of the declaration loop has issued
IssuedBy(before, after) == SubSeq(after, Len(before) + 1, Len(after))

\* C18: in the declaration loop the cache is consulted before the core: for an
\* inferred field in created_fields no request is issued, a field the
\* field-exists check finds is cached without an add-field request, and an
\* add-field request is issued only for a field that is in neither.
CacheBeforeBackend ==
  [][(csPc = "declaring" /\ csIdx' = csIdx + 1) =>
       LET f == CurrentField
           issued == IssuedBy(requests, requests')
       IN /\ InCache(created_fields, f) =>
               /\ issued = <<>>
               /\ created_fields' = created_fields
          /\ (~InCache(created_fields, f) /\ f \in liveSchema) =>
               /\ Len(issued) = 1
               /\ issued[1].op = "field-exists"
               /\ issued[1].name = f
               /\ InCache(created_fields', f)
               /\ liveSchema' = liveSchema
          /\ (~InCache(created_fields, f) /\ f \notin liveSchema) =>
               /\ Len(issued) = 2
               /\ issued[1].op = "field-exists"
               /\ issued[2].op = "add-field"
               /\ issued[1].name = f
               /\ issued[2].name = f
          /\ \A i \in 1..Len(issued) :
               issued[i].op = "add-field" =>
                 ~InCache(created_fields, f) /\ f \notin liveSchema]_vars

\* one call has met a cached field, a field that only the core knew and a
\* field that neither knew
ThreeWaysDeclared ==
  /\ csPc = "ready"
  /\ \E f, g, h \in AllFieldNames \ {CatchAll} :
       /\ HasKey(csDefs, f)
       /\ \A i \in 1..Len(requests) : requests[i].name # f
       /\ \E i \in 1..Len(requests) :
            /\ requests[i].name = g
            /\ requests[i].op = "field-exists"
            /\ requests[i].status = 200
       /\ \A i \in 1..Len(requests) : requests[i].name = g => requests[i].op # "add-field"
       /\ \E i \in 1..Len(requests) :
            /\ requests[i].name = h
            /\ requests[i].op = "add-field"

\* C21: for every field that add_field creates successfully, the type and the
\* multiValued flag recorded in created_fields equal those sent in the
\* add-field request, which for an inferred field are its inferred definition.
CacheAgreesWithBackend ==
  \A i \in 1..Len(requests) :
    (requests[i].op = "add-field" /\ requests[i].status = 200) =>
      LET f == requests[i].name
          sent == FieldDef(requests[i].type, requests[i].multiValued)
      IN /\ InCache(created_fields, f)
         /\ GetDef(created_fields, f) = sent
         /\ (f # CatchAll /\ HasKey(csDefs, f)) => sent = GetDef(csDefs, f)

(* ------------------------------------------------------------------------ *)
(* Properties of main()                                                       *)
(* ------------------------------------------------------------------------ *)

\* C9: every search or index_documents call on the Solr backend is issued
\* when its schema declaration has completed (state ready).
SolrCalledOnlyWhenReady == solrCalledIn \subseteq {"ready"}

\* the run of the log for query i on engine e
RunOf(i, e) ==
  CHOOSE k \in 1..Len(runLog) : runLog[k].q = i /\ runLog[k].engine = e

SweepReturned == mainPc \in {"plot", "done"}

\* C12: the matrix returned by run_multiple_search_tests has one entry per
\* backend, each with the four metrics, each metric holding one value per
\* query, the i-th value being that of the backend's load run for query i.
SweepMatrixShape ==
  SweepReturned =>
    /\ DOMAIN results = EngineNames
    /\ \A e \in EngineNames :
         /\ DOMAIN results[e] = MetricNames
         /\ \A m \in MetricNames : Len(results[e][m]) = Len(Queries)
         /\ \A i \in 1..Len(Queries) :
              /\ \E k \in 1..Len(runLog) : runLog[k].q = i /\ runLog[k].engine = e
              /\ results[e]["avg_latency"][i] = Times1000(runLog[RunOf(i, e)].res.avg_latency)
              /\ results[e]["median_latency"][i] = Times1000(runLog[RunOf(i, e)].res.median_latency)
              /\ results[e]["throughput"][i] = runLog[RunOf(i, e)].res.throughput
              /\ results[e]["errors"][i] = runLog[RunOf(i, e)].res.errors

\* a sweep has returned whose load runs did not all give the same values
SweepReturnedVaried ==
  /\ SweepReturned
  /\ \E e \in EngineNames, i, j \in 1..Len(Queries) :
       /\ results[e]["errors"][i] # results[e]["errors"][j]
       /\ results[e]["avg_latency"][i] # results[e]["avg_latency"][j]

(* ------------------------------------------------------------------------ *)
(* Properties of the tester loops                                             *)
(* ------------------------------------------------------------------------ *)
\* requests of the backend last called that have not completed
Unfinished == Running \cup Queued

\* C15: in run_indexing_tests, run_search_tests and run_multiple_search_tests
\* the call on one backend has ended, with all of its requests finished,
\* whenever the loop is between two calls: the backends are called in the
\* order of self.engines and only the backend being called has requests in
\* flight.
BackendsSequential ==
  /\ ~SearchCallActive => Unfinished = {}
  /\ (tsMethod = "run_indexing_tests" /\ tsPc # "calling" /\ tsLog # <<>>)
       => IndexTerminated
  /\ \A i \in 1..Len(tsLog) : tsLog[i] = Engines[i]
  /\ \A k \in 1..Len(runLog) :
       /\ runLog[k].engine = Engines[((k - 1) % Len(Engines)) + 1]
       /\ runLog[k].q = ((k - 1) \div Len(Engines)) + 1

\* the second backend of run_search_tests has a request in flight and another
\* one waiting
SecondBackendInFlight ==
  /\ tsMethod = "run_search_tests"
  /\ tsPc = "calling"
  /\ tsIdx = 2
  /\ Running # {}
  /\ Queued # {}

====
